---- MODULE Spec2Model ----
(***************************************************************************)
(* Notetaking assistant backend: the tracking records of bot sessions in   *)
(* the document store, the in-memory transcript cache, and the background  *)
(* polling task check_and_get_transcript (backend/tasks.py) that the       *)
(* request handlers of backend/main.py start per session id.               *)
(*                                                                         *)
(* A text is a sequence of characters; a message built by the program      *)
(* (a reason, a placeholder) is a sequence of its literal parts and the    *)
(* values formatted into it.                                               *)
(***************************************************************************)
EXTENDS Naturals, Sequences, FiniteSets, TLC

VARIABLES transcript_collection, transcripts, task, pool, hist, response, norm

vars == <<transcript_collection, transcripts, task, pool, hist, response, norm>>

(* ------------------------------------------------------------------ *)
(* Program constants and bounds                                        *)
(* ------------------------------------------------------------------ *)

max_retries == 120

\* Session ids: the one the remote service issues in a run (an id is issued
\* at most once), and one it does not issue.
SessionIds == {"nt1", "nt2"}

IssuableIds == {"nt1"}

\* Calendar events: schedule_meeting creates "ev1", the other requests
\* name it.
EventIds == {"ev1"}

NotetakerState == {"CONNECTING", "ATTENDING", "MEDIA_PROCESSING", "MEDIA_AVAILABLE"}

FindErrors == {"NotFound", "TransientError"}

MediaErrors == {"TransientError"}

HttpErrorCodes == {401, 404}

Statuses == {"scheduled", "joining", "recording", "processing", "ready", "failed", "timeout"}

TerminalStatuses == {"ready", "failed", "timeout"}

(* ------------------------------------------------------------------ *)
(* Optional values (Python None)                                       *)
(* ------------------------------------------------------------------ *)

None == <<>>

Some(v) == <<v>>

(* ------------------------------------------------------------------ *)
(* Decoded JSON values                                                 *)
(* ------------------------------------------------------------------ *)

JNull == [t |-> "null"]

JNum == [t |-> "num"]

JStr(s) == [t |-> "str", s |-> s]

JArr(a) == [t |-> "arr", a |-> a]

JObj(f) == [t |-> "obj", f |-> f]

IsSpace(c) == c \in {" ", "\n"}

RECURSIVE LStrip(_)
LStrip(s) == IF s # <<>> /\ IsSpace(Head(s)) THEN LStrip(Tail(s)) ELSE s

RECURSIVE RStrip(_)
RStrip(s) ==
    IF s # <<>> /\ IsSpace(s[Len(s)]) THEN RStrip(SubSeq(s, 1, Len(s) - 1)) ELSE s

\* str.strip()
Strip(s) == RStrip(LStrip(s))

\* dict.get(key, default)
Get(obj, key, default) == IF key \in DOMAIN obj.f THEN obj.f[key] ELSE default

\* The keys of a dict in iteration order (the model's objects have at most
\* the keys below, iterated in this order).
KeyOrder == <<"object", "transcript", "segments", "speaker", "text">>

KeysOf(obj) == SelectSeq(KeyOrder, LAMBDA k : k \in DOMAIN obj.f)

\* tasks.py 91-99: the value the loop iterates and whether len() of it raises.
ArrayRaises(raw) ==
    /\ raw.t = "obj"
    /\ "transcript" \in DOMAIN raw.f
    /\ raw.f["transcript"].t \in {"null", "num"}

\* Iterating a list gives its elements, a str its characters, a dict its keys.
IterOf(v) ==
    CASE v.t = "arr" -> v.a
      [] v.t = "str" -> [i \in 1..Len(v.s) |-> JStr(<<v.s[i]>>)]
      [] v.t = "obj" -> [i \in 1..Len(KeysOf(v)) |-> JStr(<<KeysOf(v)[i]>>)]
      [] OTHER -> <<>>

transcript_array(raw) ==
    IF raw.t = "obj" /\ "transcript" \in DOMAIN raw.f THEN IterOf(raw.f["transcript"])
    ELSE IF raw.t = "arr" THEN raw.a
    ELSE <<raw>>

\* tasks.py 107-108: .strip() on a value that is not a str raises.
EntryRaises(entry) ==
    /\ entry.t = "obj"
    /\ \/ Get(entry, "text", JStr(<<>>)).t # "str"
       \/ Get(entry, "speaker", JStr(<<"Speaker">>)).t # "str"

\* tasks.py 104-126: the segments one entry appends.
EntrySegments(entry) ==
    CASE entry.t = "obj" ->
           LET segment_text == Strip(Get(entry, "text", JStr(<<>>)).s)
               segment_speaker == Strip(Get(entry, "speaker", JStr(<<"Speaker">>)).s)
           IN  IF segment_text # <<>>
               THEN <<[speaker |-> segment_speaker, text |-> segment_text]>>
               ELSE <<>>
      [] entry.t = "str" -> <<[speaker |-> <<"Speaker">>, text |-> Strip(entry.s)]>>
      [] OTHER -> <<>>

RECURSIVE clean_transcript_array(_)
clean_transcript_array(entries) ==
    IF entries = <<>> THEN <<>>
    ELSE EntrySegments(Head(entries)) \o clean_transcript_array(Tail(entries))

\* An exception other than JSONDecodeError inside the parse block.
ParseRaises(raw) ==
    \/ ArrayRaises(raw)
    \/ \E i \in DOMAIN transcript_array(raw) : EntryRaises(transcript_array(raw)[i])

empty_reason == "Transcript was empty. Possible reasons: ..."

\* tasks.py 151-154
EmptyPlaceholder(id) ==
    [speaker |-> <<"System">>,
     text |-> <<"Meeting recorded (ID: ", id,
                ") but no transcript content available. ", empty_reason>>]

\* tasks.py 86-155: transcript_data after a payload decoded as JSON
\* (None when the block raised and the handler at 185 swallowed it).
ParsedTranscript(raw, id) ==
    IF ParseRaises(raw) THEN None
    ELSE IF clean_transcript_array(transcript_array(raw)) # <<>>
         THEN Some(clean_transcript_array(transcript_array(raw)))
         ELSE Some(<<EmptyPlaceholder(id)>>)

\* tasks.py 157-160: the payload is not JSON.
PlainTextTranscript(text) == Some(<<[speaker |-> <<"Transcript">>, text |-> text]>>)

\* Response bodies the transcript URL serves in the model, as whole documents.
Documents ==
    { "", "plain words", "null", "[]", "[\"a\",\" \",\"b\"]", "{\"text\":\" Hi \"}",
      "{\"transcript\":null}", "[{\"text\":null}]",
      "{\"transcript\":[{\"speaker\":\"A\",\"text\":\"Hi\"},{\"speaker\":\"B\",\"text\":\"\"}]}" }

Seg(speaker, text) == JObj([speaker |-> JStr(speaker), text |-> JStr(text)])

\* json.loads on the documents above: Some(value), or None for JSONDecodeError.
json_loads(text) ==
    CASE text = "null" -> Some(JNull)
      [] text = "[]" -> Some(JArr(<<>>))
      [] text = "[\"a\",\" \",\"b\"]"
           -> Some(JArr(<<JStr(<<"a">>), JStr(<<" ">>), JStr(<<"b">>)>>))
      [] text = "{\"text\":\" Hi \"}" -> Some(JObj([text |-> JStr(<<" ", "H", "i", " ">>)]))
      [] text = "{\"transcript\":null}" -> Some(JObj([transcript |-> JNull]))
      [] text = "[{\"text\":null}]" -> Some(JArr(<<JObj([text |-> JNull])>>))
      [] text = "{\"transcript\":[{\"speaker\":\"A\",\"text\":\"Hi\"},{\"speaker\":\"B\",\"text\":\"\"}]}"
           -> Some(JObj([transcript |-> JArr(<<Seg(<<"A">>, <<"H", "i">>), Seg(<<"B">>, <<>>)>>)]))
      [] OTHER -> None

\* response.text as a text of the model.
TextOf(doc) == IF doc = "" THEN <<>> ELSE <<doc>>

\* What http_client.get and raise_for_status yield: a 2xx response with its
\* body, or one of the exceptions of tasks.py 162-184.
HttpResponses ==
    [kind : {"ok"}, text : Documents]
        \cup [kind : {"HTTPStatusError"}, status_code : HttpErrorCodes]
        \cup {[kind |-> "TimeoutException"], [kind |-> "RequestError"]}

\* tasks.py 77-188: transcript_data after the fetch of the transcript URL.
FetchedTranscript(resp, id) ==
    IF resp.kind # "ok" THEN None
    ELSE IF json_loads(resp.text) = None THEN PlainTextTranscript(TextOf(resp.text))
    ELSE ParsedTranscript(json_loads(resp.text)[1], id)

\* What get_media returns: whether media.data has a transcript object and a
\* URL in it, and the optional summary and title (<<>> when absent or empty).
MediaResults ==
    [transcript : {"url", "no_url"}, summary : {<<>>}, title : {<<>>}]
        \cup [transcript : {"none"}, summary : {<<>>, <<"S">>}, title : {<<>>, <<"T">>}]

\* tasks.py 189-213: transcript_data when get_media carries no transcript URL.
NoUrlTranscript(media, id) ==
    IF media.transcript = "no_url" THEN None
    ELSE IF media.summary # <<>>
         THEN Some(<<[speaker |-> <<"System">>,
                      text |-> <<"Meeting Summary: ">> \o media.summary]>>)
    ELSE IF media.title # <<>>
         THEN Some(<<[speaker |-> <<"System">>,
                      text |-> <<"Meeting Title: ">> \o media.title]>>)
    ELSE Some(<<[speaker |-> <<"System">>,
                 text |-> <<"Meeting recorded but transcript unavailable. Meeting ID: ", id>>]>>)

RECURSIVE Join(_, _)
Join(texts, sep) ==
    IF texts = <<>> THEN <<>>
    ELSE IF Len(texts) = 1 THEN Head(texts)
    ELSE Head(texts) \o sep \o Join(Tail(texts), sep)

\* The texts of all segments joined, the empty ones too.
combined_text_All(data) ==
    Join([i \in 1..Len(data) |-> data[i].text], <<"\n", "\n">>)

\* tasks.py 227: "\n\n".join of the non-empty texts of the segments.
combined_text(data) ==
    Join([i \in 1..Len(SelectSeq(data, LAMBDA item : item.text # <<>>)) |->
              SelectSeq(data, LAMBDA item : item.text # <<>>)[i].text],
         <<"\n", "\n">>)

(* ------------------------------------------------------------------ *)
(* The document store and the polling task                             *)
(* ------------------------------------------------------------------ *)

EmptyMap == [k \in {} |-> None]

\* $set: the fields of the update replace or extend those of the document.
Merge(doc, set) ==
    [k \in DOMAIN doc \cup DOMAIN set |-> IF k \in DOMAIN set THEN set[k] ELSE doc[k]]

\* update_one with upsert=True: a missing id is created from the update.
update_one_Upsert(coll, id, set) ==
    [k \in DOMAIN coll \cup {id} |->
        IF k = id THEN (IF id \in DOMAIN coll THEN Merge(coll[k], set) ELSE set)
        ELSE coll[k]]

\* update_one({"_id": id}, {"$set": set}): no upsert, a missing id is a no-op.
update_one(coll, id, set) ==
    IF id \in DOMAIN coll
    THEN [k \in DOMAIN coll |-> IF k = id THEN Merge(coll[k], set) ELSE coll[k]]
    ELSE coll

insert_one(coll, id, doc) == [k \in DOMAIN coll \cup {id} |-> IF k = id THEN doc ELSE coll[k]]

delete_one(coll, id) == [k \in DOMAIN coll \ {id} |-> coll[k]]

FetchFailedReason ==
    <<"Media available but failed to fetch transcript text - check logs for details">>

\* An exception, with the call that raised it.
Raised(op, err) == [op |-> op, err |-> err]

MaxRetriesReason(e) == <<"Max retries reached. Last error: ", e.err>>

TimeoutReason == <<"Notetaker did not complete within expected time">>

IdleTask == [pc |-> "none", retry_count |-> 0, transcript_data |-> None]

\* What happened to a session so far: the calls of its run, the body the
\* transcript URL served (payload), the add_task calls for it (starts), the
\* calendar event it was created for (event_id), what get_media returned
\* (media), how many finds the run made if they went as in Scenario, else
\* None (scenario), and what all finds of the run did if they all raised
\* or all returned an unknown state (allFinds), and whether delete_recording
\* removed its record (deleted).
NoHist ==
    [finds |-> 0, fetches |-> 0, onlyConnecting |-> TRUE,
     sawMedia |-> FALSE, fetchFailed |-> FALSE, transcriptSets |-> 0,
     termWrites |-> <<>>, budgetError |-> None,
     payload |-> None, starts |-> 0, event_id |-> None, media |-> None,
     scenario |-> Some(0), allFinds |-> "none", deleted |-> FALSE]

\* No request is being answered.
NoResponse == [op |-> "none"]

\* The normalizer was not applied.
NormIdle == [stage |-> "idle"]

\* A fresh deployment: an empty store, an empty cache, no task.
Init ==
    /\ transcript_collection = EmptyMap
    /\ transcripts = EmptyMap
    /\ task = [id \in SessionIds |-> IdleTask]
    /\ pool = IssuableIds
    /\ hist = [id \in SessionIds |-> NoHist]
    /\ response = NoResponse
    /\ norm = NormIdle

\* A step between requests: the response of a handler is sent (Reply)
\* before the next step is taken.
NoRequest == response = NoResponse /\ UNCHANGED <<response, norm>>

(* The loop of check_and_get_transcript, cut at its awaits.  task[id].pc:  *)
(*   none   no task was started for id                                     *)
(*   poll   at the head of an iteration (tasks.py 24)                      *)
(*   fetch  about to fetch the transcript URL (78)                         *)
(*   store  about to persist the outcome of MEDIA_AVAILABLE (215)          *)
(*   cache  the ready update returned, about to write the cache (227)      *)
(*   sleep  in asyncio.sleep (255)                                         *)
(*   final  left the loop, about to test retry_count (258)                 *)
(*   done   the coroutine returned                                         *)

\* The remote states of the scenario of the status sequence.
Scenario == <<"CONNECTING", "ATTENDING", "ATTENDING", "MEDIA_PROCESSING", "MEDIA_AVAILABLE">>

\* The history after a find with outcome obs: a state, "other" or "raised".
Observe(h, obs) ==
    [h EXCEPT !.scenario = IF /\ @ # None
                              /\ @[1] < Len(Scenario)
                              /\ Scenario[@[1] + 1] = obs
                           THEN Some(@[1] + 1) ELSE None,
              !.allFinds = IF obs \in {"other", "raised"} /\ @ \in {"none", obs}
                           THEN obs ELSE "mixed"]

SetTask(id, pc, rc, data) ==
    task' = [task EXCEPT ![id] = [pc |-> pc, retry_count |-> rc, transcript_data |-> data]]

SetHist(id, h) == hist' = [hist EXCEPT ![id] = h]

\* The branches of ATTENDING and MEDIA_PROCESSING persist each other's status.
StatusFor_Swapped(state) ==
    CASE state = "CONNECTING" -> "joining"
      [] state = "ATTENDING" -> "processing"
      [] state = "MEDIA_PROCESSING" -> "recording"

\* The status the loop persists for a remote state (tasks.py 35-52).
StatusFor(state) ==
    CASE state = "CONNECTING" -> "joining"
      [] state = "ATTENDING" -> "recording"
      [] state = "MEDIA_PROCESSING" -> "processing"

\* The exception of the last iteration leaves the task without a write.
OnException_Escapes(id, rc, e, h) ==
    /\ SetTask(id, IF rc >= max_retries THEN "done" ELSE "sleep", rc, None)
    /\ SetHist(id, h)
    /\ UNCHANGED transcript_collection

\* Every caught exception ends the run as failed, whatever the iteration.
OnException_FailsAtOnce(id, rc, e, h) ==
    /\ transcript_collection' =
           update_one(transcript_collection, id,
                      [status |-> "failed", reason |-> MaxRetriesReason(e)])
    /\ SetTask(id, "final", rc, None)
    /\ SetHist(id, [h EXCEPT !.termWrites = Append(@, "failed"),
                             !.budgetError = Some(e)])

\* tasks.py 244-252: an exception caught in iteration rc.
OnException(id, rc, e, h) ==
    IF rc >= max_retries
    THEN /\ transcript_collection' =
                update_one(transcript_collection, id,
                           [status |-> "failed", reason |-> MaxRetriesReason(e)])
         /\ SetTask(id, "final", rc, None)
         /\ SetHist(id, [h EXCEPT !.termWrites = Append(@, "failed"),
                                  !.budgetError = Some(e)])
    ELSE /\ SetTask(id, "sleep", rc, None)
         /\ SetHist(id, h)
         /\ UNCHANGED transcript_collection

\* tasks.py 24-30, 244: find raises.
PollFindRaises(id) ==
    /\ task[id].pc = "poll"
    /\ NoRequest
    /\ \E err \in FindErrors :
          OnException(id, task[id].retry_count + 1, Raised("find", err),
                      Observe([hist[id] EXCEPT !.finds = @ + 1, !.onlyConnecting = FALSE],
                              "raised"))
    /\ UNCHANGED <<transcripts, pool>>

\* tasks.py 24-52: find returns CONNECTING, ATTENDING or MEDIA_PROCESSING.
PollStatusAs(id, state) ==
    /\ task[id].pc = "poll"
    /\ NoRequest
    /\ transcript_collection' =
           update_one(transcript_collection, id, [status |-> StatusFor(state)])
    /\ SetHist(id, Observe([hist[id] EXCEPT !.finds = @ + 1,
                                            !.onlyConnecting = @ /\ state = "CONNECTING"],
                           state))
    /\ SetTask(id, "sleep", task[id].retry_count + 1, None)
    /\ UNCHANGED <<transcripts, pool>>

PollStatus(id) ==
    \E state \in NotetakerState \ {"MEDIA_AVAILABLE"} : PollStatusAs(id, state)

\* A state none of the branches knows is taken for a failure.
PollOtherState_Fails(id) ==
    /\ task[id].pc = "poll"
    /\ NoRequest
    /\ transcript_collection' =
           update_one(transcript_collection, id,
                      [status |-> "failed", reason |-> <<"Unknown notetaker state">>])
    /\ SetTask(id, "final", task[id].retry_count + 1, None)
    /\ SetHist(id, Observe([hist[id] EXCEPT !.finds = @ + 1, !.onlyConnecting = FALSE,
                                            !.termWrites = Append(@, "failed")],
                           "other"))
    /\ UNCHANGED <<transcripts, pool>>

\* tasks.py 24-54: find returns a state none of the branches tests for.
PollOtherState(id) ==
    /\ task[id].pc = "poll"
    /\ NoRequest
    /\ SetTask(id, "sleep", task[id].retry_count + 1, None)
    /\ SetHist(id, Observe([hist[id] EXCEPT !.finds = @ + 1, !.onlyConnecting = FALSE],
                           "other"))
    /\ UNCHANGED <<transcript_collection, transcripts, pool>>

\* tasks.py 54-58, 244: MEDIA_AVAILABLE and get_media raises.
PollMediaRaises(id) ==
    /\ task[id].pc = "poll"
    /\ NoRequest
    /\ \E err \in MediaErrors :
          OnException(id, task[id].retry_count + 1, Raised("get_media", err),
                      Observe([hist[id] EXCEPT !.finds = @ + 1,
                                               !.onlyConnecting = FALSE, !.sawMedia = TRUE],
                              "MEDIA_AVAILABLE"))
    /\ UNCHANGED <<transcripts, pool>>

\* tasks.py 54-76, 189-213: MEDIA_AVAILABLE and get_media returns.
PollMedia(id) ==
    /\ task[id].pc = "poll"
    /\ NoRequest
    /\ \E media \in MediaResults :
          /\ IF media.transcript = "url"
             THEN SetTask(id, "fetch", task[id].retry_count + 1, None)
             ELSE SetTask(id, "store", task[id].retry_count + 1, NoUrlTranscript(media, id))
          /\ SetHist(id, Observe([hist[id] EXCEPT !.finds = @ + 1, !.media = Some(media),
                                                  !.onlyConnecting = FALSE, !.sawMedia = TRUE],
                                 "MEDIA_AVAILABLE"))
    /\ UNCHANGED <<transcript_collection, transcripts, pool>>

\* tasks.py 77-188: the fetch of the transcript URL and the parse of its body.
FetchTranscript(id) ==
    /\ task[id].pc = "fetch"
    /\ NoRequest
    /\ \E resp \in HttpResponses :
          /\ SetTask(id, "store", task[id].retry_count, FetchedTranscript(resp, id))
          /\ SetHist(id, [hist[id] EXCEPT !.fetches = @ + 1,
                                          !.fetchFailed = resp.kind # "ok",
                                          !.payload = IF resp.kind = "ok"
                                                      THEN Some(resp.text) ELSE None])
    /\ UNCHANGED <<transcript_collection, transcripts, pool>>

\* The ready status on its own, the transcript left for a later update.
StoreReady_StatusFirst(id) ==
    /\ task[id].pc = "store"
    /\ NoRequest
    /\ task[id].transcript_data # None
    /\ transcript_collection' =
           update_one(transcript_collection, id, [status |-> "ready"])
    /\ SetTask(id, "cache", task[id].retry_count, task[id].transcript_data)
    /\ SetHist(id, [hist[id] EXCEPT !.termWrites = Append(@, "ready")])
    /\ UNCHANGED <<transcripts, pool>>

\* tasks.py 215-225: transcript_data is not None.
StoreReady(id) ==
    /\ task[id].pc = "store"
    /\ NoRequest
    /\ task[id].transcript_data # None
    /\ transcript_collection' =
           update_one(transcript_collection, id,
                      [status |-> "ready", transcript_text |-> task[id].transcript_data[1]])
    /\ SetTask(id, "cache", task[id].retry_count, task[id].transcript_data)
    /\ SetHist(id, [hist[id] EXCEPT !.termWrites = Append(@, "ready"),
                                    !.transcriptSets = @ + 1])
    /\ UNCHANGED <<transcripts, pool>>

\* The cache entry without the break: the loop goes on.
CacheWrite_NoBreak(id) ==
    /\ task[id].pc = "cache"
    /\ NoRequest
    /\ transcripts' =
           insert_one(transcripts, id, combined_text(task[id].transcript_data[1]))
    /\ SetTask(id, "sleep", task[id].retry_count, None)
    /\ UNCHANGED <<transcript_collection, pool, hist>>

\* tasks.py 226-229, 243: the cache entry, then break.
CacheWrite(id) ==
    /\ task[id].pc = "cache"
    /\ NoRequest
    /\ transcripts' =
           insert_one(transcripts, id, combined_text(task[id].transcript_data[1]))
    /\ SetTask(id, "final", task[id].retry_count, task[id].transcript_data)
    /\ UNCHANGED <<transcript_collection, pool, hist>>

\* The failed update without its reason.
StoreFailed_NoReason(id) ==
    /\ task[id].pc = "store"
    /\ NoRequest
    /\ task[id].transcript_data = None
    /\ transcript_collection' =
           update_one(transcript_collection, id, [status |-> "failed"])
    /\ SetTask(id, "final", task[id].retry_count, None)
    /\ SetHist(id, [hist[id] EXCEPT !.termWrites = Append(@, "failed")])
    /\ UNCHANGED <<transcripts, pool>>

\* The failed branch writes a cache entry as well.
StoreFailed_Caches(id) ==
    /\ task[id].pc = "store"
    /\ response = NoResponse
    /\ task[id].transcript_data = None
    /\ transcript_collection' =
           update_one(transcript_collection, id,
                      [status |-> "failed", reason |-> FetchFailedReason])
    /\ transcripts' = insert_one(transcripts, id, FetchFailedReason)
    /\ SetTask(id, "final", task[id].retry_count, None)
    /\ SetHist(id, [hist[id] EXCEPT !.termWrites = Append(@, "failed")])
    /\ UNCHANGED <<pool, response, norm>>

\* tasks.py 230-243: transcript_data is None, then break.
StoreFailed(id) ==
    /\ task[id].pc = "store"
    /\ NoRequest
    /\ task[id].transcript_data = None
    /\ transcript_collection' =
           update_one(transcript_collection, id,
                      [status |-> "failed", reason |-> FetchFailedReason])
    /\ SetTask(id, "final", task[id].retry_count, None)
    /\ SetHist(id, [hist[id] EXCEPT !.termWrites = Append(@, "failed")])
    /\ UNCHANGED <<transcripts, pool>>

\* The loop condition off by one: retry_count <= max_retries.
Sleep_OffByOne(id) ==
    /\ task[id].pc = "sleep"
    /\ NoRequest
    /\ SetTask(id, IF task[id].retry_count <= max_retries THEN "poll" ELSE "final",
               task[id].retry_count, None)
    /\ UNCHANGED <<transcript_collection, transcripts, pool, hist>>

\* The task gives up after the sleep when its record has been deleted.
Sleep_StopsWhenDeleted(id) ==
    /\ task[id].pc = "sleep"
    /\ NoRequest
    /\ SetTask(id, IF id \notin DOMAIN transcript_collection THEN "done"
                   ELSE IF task[id].retry_count < max_retries THEN "poll" ELSE "final",
               task[id].retry_count, None)
    /\ UNCHANGED <<transcript_collection, transcripts, pool, hist>>

\* tasks.py 254-255, 24: the sleep, then the loop condition.
Sleep(id) ==
    /\ task[id].pc = "sleep"
    /\ NoRequest
    /\ SetTask(id, IF task[id].retry_count < max_retries THEN "poll" ELSE "final",
               task[id].retry_count, None)
    /\ UNCHANGED <<transcript_collection, transcripts, pool, hist>>

\* The timeout update addressed to every record, not to the task's own.
AfterLoop_UpdateMany(id) ==
    /\ task[id].pc = "final"
    /\ NoRequest
    /\ IF task[id].retry_count >= max_retries
       THEN /\ transcript_collection' =
                   [k \in DOMAIN transcript_collection |->
                       Merge(transcript_collection[k],
                             [status |-> "timeout", reason |-> TimeoutReason])]
            /\ SetHist(id, [hist[id] EXCEPT !.termWrites = Append(@, "timeout")])
       ELSE UNCHANGED <<transcript_collection, hist>>
    /\ SetTask(id, "done", task[id].retry_count, task[id].transcript_data)
    /\ UNCHANGED <<transcripts, pool>>

\* tasks.py 257-263: after the loop.
AfterLoop(id) ==
    /\ task[id].pc = "final"
    /\ NoRequest
    /\ IF task[id].retry_count >= max_retries
       THEN /\ transcript_collection' =
                   update_one(transcript_collection, id,
                              [status |-> "timeout", reason |-> TimeoutReason])
            /\ SetHist(id, [hist[id] EXCEPT !.termWrites = Append(@, "timeout")])
       ELSE UNCHANGED <<transcript_collection, hist>>
    /\ SetTask(id, "done", task[id].retry_count, task[id].transcript_data)
    /\ UNCHANGED <<transcripts, pool>>

check_and_get_transcript(id) ==
    \/ PollFindRaises(id)
    \/ PollStatus(id)
    \/ PollOtherState(id)
    \/ PollMediaRaises(id)
    \/ PollMedia(id)
    \/ FetchTranscript(id)
    \/ StoreReady(id)
    \/ CacheWrite(id)
    \/ StoreFailed(id)
    \/ Sleep(id)
    \/ AfterLoop(id)

(* ------------------------------------------------------------------ *)
(* Request handlers (backend/main.py)                                  *)
(* ------------------------------------------------------------------ *)

\* Meeting links by the substrings detect_conferencing_provider looks for
\* in the lower-cased URL ("has"), and whether the link is the empty string.
MeetingLinks ==
    { [empty |-> TRUE, has |-> {}],
      [empty |-> FALSE, has |-> {}],
      [empty |-> FALSE, has |-> {"meet.google.com"}],
      [empty |-> FALSE, has |-> {"zoom.us", "/j/"}],
      [empty |-> FALSE, has |-> {"zoom.us", "/wc/", "/j/"}],
      [empty |-> FALSE, has |-> {"zoom.us"}],
      [empty |-> FALSE, has |-> {"teams.microsoft.com"}] }

\* Web-client Zoom links are taken as Zoom meetings.
detect_conferencing_provider_AcceptsWc(meeting_url) ==
    IF meeting_url.empty THEN "ValueError"
    ELSE IF "meet.google.com" \in meeting_url.has THEN "Google Meet"
    ELSE IF "zoom.us" \in meeting_url.has
         THEN IF "/j/" \notin meeting_url.has THEN "ValueError" ELSE "Zoom Meeting"
    ELSE IF "teams.microsoft.com" \in meeting_url.has THEN "Microsoft Teams"
    ELSE "Google Meet"

\* main.py 13-51; "ValueError" when it raises.
detect_conferencing_provider(meeting_url) ==
    IF meeting_url.empty THEN "ValueError"
    ELSE IF "meet.google.com" \in meeting_url.has THEN "Google Meet"
    ELSE IF "zoom.us" \in meeting_url.has
         THEN IF "/wc/" \in meeting_url.has \/ "/j/" \notin meeting_url.has
              THEN "ValueError"
              ELSE "Zoom Meeting"
    ELSE IF "teams.microsoft.com" \in meeting_url.has THEN "Microsoft Teams"
    ELSE "Google Meet"

\* What a request to schedule a meeting carries: a start time strptime
\* rejects, else no link, else a Zoom link that is a web-client link or has
\* no /j/, else a start time and a link of the expected form.
RequestKind(start_ok, meeting_url) ==
    IF ~start_ok THEN "invalid start_time"
    ELSE IF meeting_url.empty THEN "no meeting_link"
    ELSE IF /\ "zoom.us" \in meeting_url.has
            /\ ("/wc/" \in meeting_url.has \/ "/j/" \notin meeting_url.has)
         THEN "invalid Zoom link"
    ELSE "valid"

\* An id the remote service may hand out now, or None.
IssuedIds == {None} \cup {Some(i) : i \in pool}

\* background_tasks.add_task(check_and_get_transcript, id)
add_task(id) == task' = [task EXCEPT ![id] = [IdleTask EXCEPT !.pc = "poll"]]

\* The task is added although insert_one raised.
Track_TaskAnyway(notetaker_id, status, event_id, stored) ==
    /\ add_task(notetaker_id)
    /\ hist' = [hist EXCEPT ![notetaker_id].starts = @ + 1,
                            ![notetaker_id].event_id = event_id]
    /\ IF stored /\ notetaker_id \notin DOMAIN transcript_collection
       THEN transcript_collection' =
                insert_one(transcript_collection, notetaker_id, [status |-> status])
       ELSE UNCHANGED transcript_collection

\* insert_one of the tracking record, then add_task (main.py 502-508,
\* 733-740).  insert_one raises when the store fails (stored = FALSE) or on
\* an _id the collection already holds, and then add_task is not reached.
Track(notetaker_id, status, event_id, stored) ==
    IF stored /\ notetaker_id \notin DOMAIN transcript_collection
    THEN /\ transcript_collection' =
                insert_one(transcript_collection, notetaker_id, [status |-> status])
         /\ add_task(notetaker_id)
         /\ hist' = [hist EXCEPT ![notetaker_id].starts = @ + 1,
                                 ![notetaker_id].event_id = event_id]
    ELSE UNCHANGED <<transcript_collection, task, hist>>

\* Whether Track returns (the record was inserted and the task added).
Tracked(notetaker_id, stored) ==
    stored /\ notetaker_id \notin DOMAIN transcript_collection

\* main.py 299-539.  start_ok: strptime accepts start_time; created:
\* events.create succeeds (at once or on the fallback retry), else it raises
\* NylasApiError; ev: the notetaker id the created event carries; inv: the
\* id notetakers.invite returns (None when it raises); stored: insert_one
\* succeeds.  The response also tells what was asked (request) and which
\* calls to the remote service were made (calls).
schedule_meeting ==
    \E start_ok \in BOOLEAN, link \in MeetingLinks, created \in BOOLEAN,
       ev \in IssuedIds, inv \in IssuedIds, stored \in BOOLEAN :
        LET provider == detect_conferencing_provider(link)
            accepted == start_ok /\ provider # "ValueError" /\ created
            is_zoom == provider = "Zoom Meeting"
            event_notetaker == IF accepted /\ ~is_zoom THEN ev ELSE None
            invited == accepted /\ (event_notetaker = None \/ is_zoom)
            invite_id == IF invited THEN inv ELSE None
            notetaker_id == IF invite_id # None THEN invite_id ELSE event_notetaker
            calls == (IF start_ok /\ provider # "ValueError" THEN {"events.create"} ELSE {})
                         \cup (IF invited THEN {"notetakers.invite"} ELSE {})
        IN  /\ response = NoResponse
            /\ pool' = pool \ ({event_notetaker[i] : i \in DOMAIN event_notetaker}
                                  \cup {invite_id[i] : i \in DOMAIN invite_id})
            /\ IF notetaker_id # None
               THEN Track(notetaker_id[1], "scheduled", Some("ev1"), stored)
               ELSE UNCHANGED <<transcript_collection, task, hist>>
            /\ response' =
                   [op |-> "schedule_meeting",
                    status_code |->
                        IF ~accepted THEN 400
                        ELSE IF notetaker_id # None /\ ~Tracked(notetaker_id[1], stored)
                             THEN 500
                             ELSE 200,
                    request |-> RequestKind(start_ok, link),
                    calls |-> calls,
                    notetaker_id |-> notetaker_id]
            /\ UNCHANGED <<transcripts, norm>>

\* The bot the event already has is used again instead of a new invite.
auto_deploy_bot_to_event_Reuse(event_id) ==
    \E found \in BOOLEAN, has_link \in BOOLEAN, stored \in BOOLEAN,
       inv \in {None} \cup {Some(i) : i \in IssuableIds} :
        LET notetaker_id == IF found /\ has_link THEN inv ELSE None
        IN  /\ response = NoResponse
            /\ pool' = pool \ {notetaker_id[i] : i \in DOMAIN notetaker_id}
            /\ IF notetaker_id # None
               THEN Track(notetaker_id[1], "processing", Some(event_id), stored)
               ELSE UNCHANGED <<transcript_collection, task, hist>>
            /\ response' =
                   [op |-> "auto_deploy_bot_to_event",
                    status_code |-> IF notetaker_id # None /\ Tracked(notetaker_id[1], stored)
                                    THEN 200 ELSE 400,
                    notetaker_id |-> notetaker_id]
            /\ UNCHANGED <<transcripts, norm>>

\* main.py 669-760.  found: events.find succeeds (else NylasApiError);
\* has_link: the event has a conferencing URL (else the HTTPException of 710
\* is caught at 756); inv: the id notetakers.invite returns (None: it raises
\* NylasApiError); stored: insert_one succeeds.  detail is the detail of the
\* HTTPException the handler raises, or the message of its answer.
auto_deploy_bot_to_event(event_id) ==
    \E found \in BOOLEAN, has_link \in BOOLEAN, inv \in IssuedIds, stored \in BOOLEAN :
        LET notetaker_id == IF found /\ has_link THEN inv ELSE None
        IN  /\ response = NoResponse
            /\ pool' = pool \ {notetaker_id[i] : i \in DOMAIN notetaker_id}
            /\ IF notetaker_id # None
               THEN Track(notetaker_id[1], "processing", Some(event_id), stored)
               ELSE UNCHANGED <<transcript_collection, task, hist>>
            /\ response' =
                   [op |-> "auto_deploy_bot_to_event",
                    status_code |->
                        IF ~found THEN 400
                        ELSE IF ~has_link THEN 500
                        ELSE IF notetaker_id = None THEN 400
                        ELSE IF ~Tracked(notetaker_id[1], stored) THEN 500
                        ELSE 200,
                    detail |->
                        IF ~found THEN "Failed to deploy bot: events.find"
                        ELSE IF ~has_link
                             THEN "Unexpected error: 400: No meeting link found in the calendar event."
                        ELSE IF notetaker_id = None THEN "Failed to deploy bot: notetakers.invite"
                        ELSE IF ~Tracked(notetaker_id[1], stored) THEN "Unexpected error: insert_one"
                        ELSE "Bot successfully deployed to the meeting!",
                    notetaker_id |-> notetaker_id]
            /\ UNCHANGED <<transcripts, norm>>

\* The cache entry is left behind.
delete_recording_KeepsCache(notetaker_id) ==
    /\ response = NoResponse
    /\ transcript_collection' = delete_one(transcript_collection, notetaker_id)
    /\ response' = [op |-> "delete_recording", notetaker_id |-> notetaker_id,
                    status_code |-> IF notetaker_id \in DOMAIN transcript_collection
                                    THEN 200 ELSE 404]
    /\ UNCHANGED <<transcripts, task, pool, hist, norm>>

\* main.py 241-294: 404 and no change when the record is missing.
delete_recording(notetaker_id) ==
    /\ response = NoResponse
    /\ IF notetaker_id \in DOMAIN transcript_collection
       THEN /\ transcript_collection' = delete_one(transcript_collection, notetaker_id)
            /\ transcripts' = delete_one(transcripts, notetaker_id)
            /\ response' = [op |-> "delete_recording", notetaker_id |-> notetaker_id,
                            status_code |-> 200]
            /\ SetHist(notetaker_id, [hist[notetaker_id] EXCEPT !.deleted = TRUE])
       ELSE /\ UNCHANGED <<transcript_collection, transcripts, hist>>
            /\ response' = [op |-> "delete_recording", notetaker_id |-> notetaker_id,
                            status_code |-> 404]
    /\ UNCHANGED <<task, pool, norm>>

\* main.py 124-145: the message and the display status of a status.
StatusMessage(status) ==
    CASE status = "scheduled" -> [message |-> "Meeting hasn't started yet.", display_status |-> "Scheduled"]
      [] status = "joining" -> [message |-> "Bot is joining the meeting...", display_status |-> "Joining"]
      [] status = "recording" -> [message |-> "Attending", display_status |-> "Attending"]
      [] status = "processing" -> [message |-> "Processing", display_status |-> "Processing"]
      [] status = "ready" -> [message |-> "Media Available - Transcript is ready!", display_status |-> "Media Available"]
      [] status = "failed" -> [message |-> "Transcription failed.", display_status |-> "Failed"]
      [] status = "timeout" -> [message |-> "Transcription timed out.", display_status |-> "Timeout"]
      [] OTHER -> EmptyMap

\* main.py 96-103: "speaker: text" of the segments with a text, joined.
FormattedTranscript(transcript_json) ==
    LET with_text == SelectSeq(transcript_json, LAMBDA item : item.text # <<>>)
    IN  Join([i \in 1..Len(with_text) |->
                  with_text[i].speaker \o <<": ">> \o with_text[i].text],
             <<"\n", "\n">>)

\* main.py 85-147: the response built from the record of the store.
RecordResponse(transcript_data, notetaker_id) ==
    Merge(Merge([notetaker_id |-> notetaker_id, status |-> transcript_data.status],
                IF "transcript_text" \in DOMAIN transcript_data
                   /\ transcript_data.transcript_text # <<>>
                THEN [transcript_text |-> FormattedTranscript(transcript_data.transcript_text)]
                ELSE EmptyMap),
          StatusMessage(transcript_data.status))

\* main.py 149-158: the response built from the entry of the cache.
CacheResponse(transcript_text, notetaker_id) ==
    Merge([notetaker_id |-> notetaker_id, status |-> "ready",
           transcript_text |-> transcript_text],
          StatusMessage("ready"))

\* The cache is asked first, the store only when it has no entry.
StatusResponse_CacheFirst(notetaker_id) ==
    IF notetaker_id \in DOMAIN transcripts /\ transcripts[notetaker_id] # <<>>
    THEN [op |-> "get_transcript_status", notetaker_id |-> notetaker_id, status_code |-> 200,
          body |-> CacheResponse(transcripts[notetaker_id], notetaker_id)]
    ELSE IF notetaker_id \in DOMAIN transcript_collection
    THEN [op |-> "get_transcript_status", notetaker_id |-> notetaker_id, status_code |-> 200,
          body |-> RecordResponse(transcript_collection[notetaker_id], notetaker_id)]
    ELSE [op |-> "get_transcript_status", notetaker_id |-> notetaker_id, status_code |-> 404,
          body |-> EmptyMap]

\* main.py 83-163: what get_transcript_status answers in the current state.
StatusResponse(notetaker_id) ==
    IF notetaker_id \in DOMAIN transcript_collection
    THEN [op |-> "get_transcript_status", notetaker_id |-> notetaker_id, status_code |-> 200,
          body |-> RecordResponse(transcript_collection[notetaker_id], notetaker_id)]
    ELSE IF notetaker_id \in DOMAIN transcripts /\ transcripts[notetaker_id] # <<>>
    THEN [op |-> "get_transcript_status", notetaker_id |-> notetaker_id, status_code |-> 200,
          body |-> CacheResponse(transcripts[notetaker_id], notetaker_id)]
    ELSE [op |-> "get_transcript_status", notetaker_id |-> notetaker_id, status_code |-> 404,
          body |-> EmptyMap]

\* The read marks a record ready when the cache has a transcript for it.
get_transcript_status_Syncs(notetaker_id) ==
    /\ response = NoResponse
    /\ response' = StatusResponse(notetaker_id)
    /\ transcript_collection' =
           IF notetaker_id \in DOMAIN transcripts
           THEN update_one(transcript_collection, notetaker_id, [status |-> "ready"])
           ELSE transcript_collection
    /\ UNCHANGED <<transcripts, task, pool, hist, norm>>

\* main.py 76-163: GET /transcripts/{notetaker_id}.
get_transcript_status(notetaker_id) ==
    /\ response = NoResponse
    /\ response' = StatusResponse(notetaker_id)
    /\ UNCHANGED <<transcript_collection, transcripts, task, pool, hist, norm>>

\* delete_many({field: value}): the documents that have the field with
\* that value are removed.
delete_many(coll, field, value) ==
    [k \in {d \in DOMAIN coll : ~(field \in DOMAIN coll[d] /\ coll[d][field] = value)}
        |-> coll[k]]

\* main.py 768-921.  found: events.find returns the event; destroyed:
\* events.destroy succeeds.  The calendar itself is not part of the state.
delete_calendar_event(event_id) ==
    \E found \in BOOLEAN, destroyed \in BOOLEAN :
        LET deletion_success == found /\ destroyed
            remaining == delete_many(transcript_collection, "event_id", event_id)
            recordings_deleted ==
                Cardinality(DOMAIN transcript_collection) - Cardinality(DOMAIN remaining)
        IN  /\ response = NoResponse
            /\ transcript_collection' = remaining
            /\ response' =
                   [op |-> "delete_calendar_event", event_id |-> event_id,
                    status_code |->
                        IF deletion_success \/ recordings_deleted > 0 THEN 200 ELSE 404,
                    calendar_deletion |-> deletion_success,
                    recordings_deleted |-> recordings_deleted]
            /\ UNCHANGED <<transcripts, task, pool, hist, norm>>

\* main.py 179-225: the row of one document in the list of recordings.
Recording(doc, id) ==
    Merge([notetaker_id |-> id, status |-> doc.status,
           display_status |-> StatusMessage(doc.status).display_status],
          IF "transcript_text" \in DOMAIN doc /\ doc.transcript_text # <<>>
          THEN [transcript_text |-> FormattedTranscript(doc.transcript_text)]
          ELSE EmptyMap)

\* main.py 166-238: GET /recordings, the rows of all documents of the store.
get_all_recordings ==
    /\ response = NoResponse
    /\ response' =
           [op |-> "get_all_recordings", status_code |-> 200,
            total |-> Cardinality(DOMAIN transcript_collection),
            recordings |-> [id \in DOMAIN transcript_collection |->
                               Recording(transcript_collection[id], id)]]
    /\ UNCHANGED <<transcript_collection, transcripts, task, pool, hist, norm>>

\* main.py 550-666: POST /fetch-calendar-events.  The events come from the
\* calendar service; the handler reads neither the store nor the cache and
\* answers 200, or 400 / 500 for a bad date or an error of the service.
fetch_calendar_events ==
    /\ response = NoResponse
    /\ \E status_code \in {200, 400, 500} :
          response' = [op |-> "fetch_calendar_events", status_code |-> status_code]
    /\ UNCHANGED <<transcript_collection, transcripts, task, pool, hist, norm>>

\* The response of the handler is sent.
Reply ==
    /\ response # NoResponse
    /\ response' = NoResponse
    /\ UNCHANGED <<transcript_collection, transcripts, task, pool, hist, norm>>

Next ==
    \/ schedule_meeting
    \/ \E e \in EventIds : auto_deploy_bot_to_event(e)
    \/ \E id \in SessionIds : delete_recording(id)
    \/ \E id \in SessionIds : get_transcript_status(id)
    \/ get_all_recordings
    \/ fetch_calendar_events
    \/ \E e \in EventIds : delete_calendar_event(e)
    \/ Reply
    \/ \E id \in SessionIds : check_and_get_transcript(id)

Spec == Init /\ [][Next]_vars

\* The process is not shut down: the event loop sends a pending response,
\* and a task that can run between requests again and again does run (the
\* loop serves its ready callbacks in turn, requests cannot starve a task).
FairSpec ==
    Spec /\ WF_vars(Reply) /\ \A id \in SessionIds : SF_vars(check_and_get_transcript(id))

\* Records an earlier run of the process left in the store.
EarlierRecords ==
    { [status |-> "ready",
       transcript_text |-> <<[speaker |-> <<"A">>, text |-> <<"H", "i">>]>>] }

\* The process was restarted: the store still holds the record of the
\* session nt2, the cache is empty and no task is running.
RestartInit ==
    /\ transcript_collection \in {[id \in {"nt2"} |-> r] : r \in EarlierRecords}
    /\ transcripts = EmptyMap
    /\ task = [id \in SessionIds |-> IdleTask]
    /\ pool = IssuableIds
    /\ hist = [id \in SessionIds |-> NoHist]
    /\ response = NoResponse
    /\ norm = NormIdle

RestartSpec == RestartInit /\ [][Next]_vars

\* The task of a session deployed to an event whose finds have all returned
\* an unknown state, at the head of its last but one iteration.
LateTask == [IdleTask EXCEPT !.pc = "poll", !.retry_count = max_retries - 2]

LateHist ==
    [NoHist EXCEPT !.finds = max_retries - 2, !.onlyConnecting = FALSE,
                   !.starts = 1, !.event_id = Some("ev1"),
                   !.scenario = None, !.allFinds = "other"]

\* Two sessions were deployed and the tasks of both are running.
TwoTasksInit ==
    /\ transcript_collection = [id \in SessionIds |-> [status |-> "processing"]]
    /\ transcripts = EmptyMap
    /\ task = [id \in SessionIds |-> LateTask]
    /\ pool = {}
    /\ hist = [id \in SessionIds |-> LateHist]
    /\ response = NoResponse
    /\ norm = NormIdle

\* The steps of the two tasks, in any interleaving.
TwoTasksNext == \E id \in SessionIds : check_and_get_transcript(id)

TwoTasksSpec == TwoTasksInit /\ [][TwoTasksNext]_vars

(* ------------------------------------------------------------------ *)
(* The normalization of a decoded payload, on its own                  *)
(* ------------------------------------------------------------------ *)

MaxArrayLen == 2

\* The texts of the payloads: empty, blank, a word, a word in blanks.
PayloadTexts == {<<>>, <<" ">>, <<"a">>, <<" ", "a", " ">>}

Scalars == {JNull, JNum} \cup {JStr(s) : s \in PayloadTexts}

\* A speaker that is null, and one that trimming changes.
SpeakerValues == {JNull, JStr(<<" ", "A">>)}

\* Objects with or without a text and a speaker.
EntryObjects ==
    {JObj(EmptyMap)}
        \cup {JObj([text |-> t]) : t \in Scalars}
        \cup {JObj([speaker |-> sp]) : sp \in SpeakerValues}
        \cup {JObj([text |-> t, speaker |-> sp]) : t \in Scalars, sp \in SpeakerValues}

Arrays ==
    {JArr(a) : a \in UNION {[1..n -> Scalars \cup EntryObjects] : n \in 0..MaxArrayLen}}

ScalarArrays ==
    {JArr(a) : a \in UNION {[1..n -> Scalars] : n \in 0..MaxArrayLen}}

\* The decoded payloads: scalars, single objects, arrays, wrapper objects
\* around each of them, and objects that hold an array under another key.
JsonPayloads ==
    LET inner == Scalars \cup EntryObjects \cup Arrays
    IN  inner \cup {JObj([transcript |-> v]) : v \in inner}
              \cup {JObj([object |-> JStr(<<"transcript">>), transcript |-> v]) : v \in Arrays}
              \cup {JObj([segments |-> v]) : v \in ScalarArrays}

\* A payload json.loads returned, not normalized yet.
NormInit ==
    /\ transcript_collection = EmptyMap
    /\ transcripts = EmptyMap
    /\ task = [id \in SessionIds |-> IdleTask]
    /\ pool = IssuableIds
    /\ hist = [id \in SessionIds |-> NoHist]
    /\ response = NoResponse
    /\ norm \in {[stage |-> "decoded", raw |-> raw] : raw \in JsonPayloads}

\* tasks.py 91-155 applied to the payload: whether the block raises, the
\* array it resolves the payload to (None when len() of it raised), the
\* clean array it builds and the transcript_data it leaves.
Normalize ==
    /\ norm.stage = "decoded"
    /\ norm' = [stage |-> "normalized",
                raw |-> norm.raw,
                raises |-> ParseRaises(norm.raw),
                array |-> IF ArrayRaises(norm.raw) THEN None
                          ELSE Some(transcript_array(norm.raw)),
                clean |-> IF ParseRaises(norm.raw) THEN <<>>
                          ELSE clean_transcript_array(transcript_array(norm.raw)),
                transcript_data |-> ParsedTranscript(norm.raw, "nt1")]
    /\ UNCHANGED <<transcript_collection, transcripts, task, pool, hist, response>>

NormSpec == NormInit /\ [][Normalize]_vars

(* ------------------------------------------------------------------ *)
(* Properties                                                          *)
(* ------------------------------------------------------------------ *)

HasRecord(id) == id \in DOMAIN transcript_collection

Record(id) == transcript_collection[id]

Range(seq) == {seq[i] : i \in DOMAIN seq}

\* The place of a status on the success path.
Rank(status) ==
    CASE status = "scheduled" -> 0
      [] status = "joining" -> 1
      [] status = "recording" -> 2
      [] status = "processing" -> 3
      [] status = "ready" -> 4

\* C1: the status persisted for a record never moves backward along
\* scheduled, joining, recording, processing, ready; any other change of it
\* is a move into failed or timeout.
C1_StatusNeverRegresses ==
    [][\A id \in SessionIds :
          (HasRecord(id) /\ id \in DOMAIN transcript_collection') =>
              LET old == Record(id).status
                  new == transcript_collection'[id].status
              IN  \/ new = old
                  \/ new \in {"failed", "timeout"}
                  \/ /\ old \notin TerminalStatuses \ {"ready"}
                     /\ Rank(old) < Rank(new)]_vars

\* C2: once a record's status is ready, failed or timeout, no step that
\* keeps the record changes its status or any other field of it.
C2_TerminalIsFinal ==
    [][\A id \in SessionIds :
          (/\ HasRecord(id)
           /\ Record(id).status \in TerminalStatuses
           /\ id \in DOMAIN transcript_collection') =>
              transcript_collection'[id] = Record(id)]_vars

\* C3: a run never makes more than 120 find calls, and a run in which
\* every find returned CONNECTING ends after exactly 120 of them with the
\* single terminal write timeout and its reason; the record then has
\* status timeout.
C3_AlwaysConnectingTimesOut ==
    \A id \in SessionIds :
        /\ hist[id].finds <= max_retries
        /\ (task[id].pc = "done" /\ hist[id].onlyConnecting) =>
              /\ hist[id].finds = max_retries
              /\ hist[id].termWrites = <<"timeout">>
              /\ HasRecord(id) =>
                    /\ Record(id).status = "timeout"
                    /\ Record(id).reason = TimeoutReason

C3_Witness ==
    \E id \in SessionIds :
        /\ task[id].pc = "done"
        /\ hist[id].onlyConnecting
        /\ hist[id].finds = max_retries
        /\ HasRecord(id)
        /\ Record(id).status = "timeout"

\* C4: every started polling task eventually returns, and when it has
\* returned its record, unless deleted, has status ready, failed or timeout,
\* whatever find, get_media, the fetch and the decode returned or raised.
C4_TaskEndsTerminal ==
    \A id \in SessionIds :
        [](task[id].pc = "poll" =>
              <>(/\ task[id].pc = "done"
                 /\ HasRecord(id) => Record(id).status \in TerminalStatuses))

C4_Witness ==
    \E id \in SessionIds :
        /\ task[id].pc = "done"
        /\ hist[id].budgetError # None
        /\ HasRecord(id)
        /\ Record(id).status \in TerminalStatuses

\* C5: one run issues at most one update that sets the transcript, and the
\* record carries a transcript only after that update.
C5_TranscriptWrittenOnce ==
    \A id \in SessionIds :
        /\ hist[id].transcriptSets <= 1
        /\ (HasRecord(id) /\ "transcript_text" \in DOMAIN Record(id)) =>
              hist[id].transcriptSets = 1

C5_Witness ==
    \E id \in SessionIds :
        /\ task[id].pc = "done"
        /\ hist[id].transcriptSets = 1
        /\ HasRecord(id)
        /\ "transcript_text" \in DOMAIN Record(id)

\* C6: a record that carries a transcript has status ready.
C6_TranscriptOnlyWhenReady ==
    \A id \in DOMAIN transcript_collection :
        "transcript_text" \in DOMAIN Record(id) => Record(id).status = "ready"

\* C7: a record has a failure reason exactly when its status is failed or
\* timeout.
C7_ReasonIffFailure ==
    \A id \in DOMAIN transcript_collection :
        "reason" \in DOMAIN Record(id) <=> Record(id).status \in {"failed", "timeout"}

C7_Witness ==
    \E id \in DOMAIN transcript_collection :
        /\ Record(id).status = "failed"
        /\ Record(id).reason = FetchFailedReason
        /\ task[id].pc = "done"

\* C8: a run whose find raised on the iteration that exhausts the budget
\* ends with its record failed and the reason naming the last error.
C8_BudgetErrorEndsFailed ==
    \A id \in SessionIds :
        (/\ task[id].pc = "done"
         /\ hist[id].budgetError # None
         /\ hist[id].budgetError[1].op = "find"
         /\ HasRecord(id)) =>
            /\ Record(id).status = "failed"
            /\ Record(id).reason = MaxRetriesReason(hist[id].budgetError[1])

\* C9: a run writes timeout only after 120 iterations none of which
\* observed MEDIA_AVAILABLE or took the budget-exhausted error branch, and
\* then timeout is its only terminal write.
C9_TimeoutOnlyWithoutOutcome ==
    \A id \in SessionIds :
        "timeout" \in Range(hist[id].termWrites) =>
            /\ hist[id].finds = max_retries
            /\ ~hist[id].sawMedia
            /\ hist[id].budgetError = None
            /\ hist[id].termWrites = <<"timeout">>

\* C10: a run fetches the transcript URL at most once, and a run whose
\* fetch failed ends with its record failed and the fetch-failure reason.
C10_FetchFailureEndsFailed ==
    \A id \in SessionIds :
        /\ hist[id].fetches <= 1
        /\ (task[id].pc = "done" /\ hist[id].fetchFailed /\ HasRecord(id)) =>
              /\ Record(id).status = "failed"
              /\ Record(id).reason = FetchFailedReason

\* C11: a run that fetched the transcript URL and received the payload []
\* ends with its record, unless deleted, in status ready and holding a
\* transcript of exactly one segment, whose speaker is System.
C11_EmptyArrayEndsReady ==
    \A id \in SessionIds :
        (/\ task[id].pc = "done"
         /\ hist[id].payload = Some("[]")
         /\ HasRecord(id)) =>
            /\ Record(id).status = "ready"
            /\ "transcript_text" \in DOMAIN Record(id)
            /\ Len(Record(id).transcript_text) = 1
            /\ Record(id).transcript_text[1].speaker = <<"System">>

\* C12: the status read of a record whose status is failed or timeout
\* answers 200 with that status and with the failure reason the record holds.
C12_FailureReasonReturned ==
    (/\ response.op = "get_transcript_status"
     /\ HasRecord(response.notetaker_id)
     /\ Record(response.notetaker_id).status \in {"failed", "timeout"}) =>
        /\ response.status_code = 200
        /\ response.body.status = Record(response.notetaker_id).status
        /\ \E k \in {"reason", "failure_reason"} :
              /\ k \in DOMAIN response.body
              /\ response.body[k] = Record(response.notetaker_id).reason

\* C13: the normalization of a decoded payload does not raise, and every
\* segment it returns has a text that is not empty after trimming.
C13_NormalizerTotalNonEmpty ==
    norm.stage = "normalized" =>
        /\ ~norm.raises
        /\ \A i \in DOMAIN norm.clean : Strip(norm.clean[i].text) # <<>>

\* A decoded payload that is malformed: a wrapper whose transcript is not an
\* array, or an element whose text or speaker is present and not a string.
Malformed(raw) ==
    \/ /\ raw.t = "obj"
       /\ "transcript" \in DOMAIN raw.f
       /\ raw.f["transcript"].t # "arr"
    \/ \E i \in DOMAIN transcript_array(raw) :
          /\ transcript_array(raw)[i].t = "obj"
          /\ \E k \in {"text", "speaker"} :
                /\ k \in DOMAIN transcript_array(raw)[i].f
                /\ transcript_array(raw)[i].f[k].t # "str"

\* C14: a run that fetched a payload that decodes and is malformed ends with
\* its record, unless deleted, in status ready.
C14_MalformedEndsReady ==
    \A id \in SessionIds :
        (/\ task[id].pc = "done"
         /\ hist[id].payload # None
         /\ json_loads(hist[id].payload[1]) # None
         /\ Malformed(json_loads(hist[id].payload[1])[1])
         /\ HasRecord(id)) =>
            Record(id).status = "ready"

\* C15: a polling task is started for an id only in the step that inserts
\* the record of that id, with status scheduled (schedule_meeting) or
\* processing (auto-deploy); a record is inserted for an id at most once; and
\* a request whose insert failed starts no task.
C15_TaskOnlyAfterInsert ==
    [][\A id \in SessionIds :
          /\ (\/ hist'[id].starts # hist[id].starts
              \/ task[id].pc = "none" /\ task'[id].pc # "none") =>
                /\ ~HasRecord(id)
                /\ id \in DOMAIN transcript_collection'
                /\ transcript_collection'[id] =
                       [status |-> IF response'.op = "schedule_meeting"
                                   THEN "scheduled" ELSE "processing"]
                /\ response'.op \in {"schedule_meeting", "auto_deploy_bot_to_event"}
                /\ task'[id] = [IdleTask EXCEPT !.pc = "poll"]
          /\ (~HasRecord(id) /\ id \in DOMAIN transcript_collection') =>
                hist[id].starts = 0
          /\ (/\ response'.op \in {"schedule_meeting", "auto_deploy_bot_to_event"}
              /\ response'.notetaker_id = Some(id)
              /\ response'.status_code = 500) =>
                /\ task'[id] = task[id]
                /\ ~HasRecord(id)
                /\ id \notin DOMAIN transcript_collection']_vars

C15_Witness ==
    /\ response.op = "schedule_meeting"
    /\ response.notetaker_id = Some("nt1")
    /\ response.status_code = 500
    /\ task["nt1"].pc = "none"
    /\ ~HasRecord("nt1")
    /\ pool = {}

\* C16: at most one polling task is ever started for a session id, so no
\* two tasks run for it at a time, whatever the order of schedule-meeting,
\* auto-deploy and delete-recording requests.
C16_OneTaskPerId ==
    \A id \in SessionIds :
        /\ hist[id].starts <= 1
        /\ task[id].pc # "none" => hist[id].starts = 1

\* The task of nt1 is running, its record was deleted and a later
\* schedule-meeting request was served.
C16_Witness ==
    /\ task["nt1"].pc \in {"poll", "fetch", "store", "cache", "sleep"}
    /\ hist["nt1"].starts = 1
    /\ hist["nt1"].event_id = Some("ev1")
    /\ ~HasRecord("nt1")
    /\ response.op = "schedule_meeting"
    /\ response.status_code = 200

\* C17: no step of a polling task changes the set of ids that have a
\* record: it neither deletes a record nor creates one, so the record a
\* user deleted is not brought back by the updates the task issues later.
C17_TaskKeepsRecordIds ==
    [][(\E id \in SessionIds : check_and_get_transcript(id)) =>
          DOMAIN transcript_collection' = DOMAIN transcript_collection]_vars

\* The record of nt1 was deleted before the cache entry was written, and
\* the task went on to its timeout update at check 120.
C17_Witness ==
    /\ task["nt1"].pc = "done"
    /\ task["nt1"].retry_count = max_retries
    /\ hist["nt1"].termWrites = <<"ready", "timeout">>
    /\ "nt1" \in DOMAIN transcripts
    /\ ~HasRecord("nt1")

\* C18: when DELETE /calendar-events/{event_id} has answered 200, no
\* session that schedule-meeting or auto-deploy created for that event has
\* a record left in the store.
C18_EventDeleteRemovesRecords ==
    (response.op = "delete_calendar_event" /\ response.status_code = 200) =>
        \A id \in SessionIds :
            hist[id].event_id = Some(response.event_id) => ~HasRecord(id)

\* C19: delete_recording of an id without a record answers 404 and changes
\* neither the store nor the cache; of an id with a record it answers 200,
\* removes that record and the cache entry of the id, and leaves every
\* other record and cache entry as it was.
C19_DeleteRecordingFrame ==
    [][\A id \in SessionIds :
          (/\ response = NoResponse
           /\ response'.op = "delete_recording"
           /\ response'.notetaker_id = id) =>
              IF HasRecord(id)
              THEN /\ response'.status_code = 200
                   /\ DOMAIN transcript_collection' = DOMAIN transcript_collection \ {id}
                   /\ \A k \in DOMAIN transcript_collection' :
                         transcript_collection'[k] = transcript_collection[k]
                   /\ DOMAIN transcripts' = DOMAIN transcripts \ {id}
                   /\ \A k \in DOMAIN transcripts' : transcripts'[k] = transcripts[k]
              ELSE /\ response'.status_code = 404
                   /\ transcript_collection' = transcript_collection
                   /\ transcripts' = transcripts]_vars

\* The record of nt2 was deleted while nt1 has a record and a cache entry.
C19_Witness ==
    /\ response.op = "delete_recording"
    /\ response.notetaker_id = "nt2"
    /\ response.status_code = 200
    /\ ~HasRecord("nt2")
    /\ HasRecord("nt1")
    /\ "nt1" \in DOMAIN transcripts

\* C20: the status read of an id that has a record answers 200 from the
\* record (its status, its transcript), whatever the cache holds; of an id
\* without a record it answers from the cache entry; and when neither the
\* store nor the cache has the id it answers 404.
C20_ReadStoreThenCache ==
    response.op = "get_transcript_status" =>
        LET id == response.notetaker_id
        IN  IF HasRecord(id)
            THEN /\ response.status_code = 200
                 /\ response.body.notetaker_id = id
                 /\ response.body.status = Record(id).status
                 /\ IF "transcript_text" \in DOMAIN Record(id)
                    THEN response.body.transcript_text =
                             FormattedTranscript(Record(id).transcript_text)
                    ELSE "transcript_text" \notin DOMAIN response.body
            ELSE IF id \in DOMAIN transcripts /\ transcripts[id] # <<>>
            THEN /\ response.status_code = 200
                 /\ response.body.status = "ready"
                 /\ response.body.transcript_text = transcripts[id]
            ELSE id \notin DOMAIN transcripts => response.status_code = 404

\* The read of nt1 was answered from the cache: its record was deleted
\* before the task wrote the cache entry.
C20_Witness ==
    /\ response.op = "get_transcript_status"
    /\ response.notetaker_id = "nt1"
    /\ response.status_code = 200
    /\ ~HasRecord("nt1")
    /\ "nt1" \in DOMAIN transcripts

C22_NoPollAfterMedia ==
    [][\A id \in SessionIds :
          hist[id].sawMedia => hist'[id].finds = hist[id].finds]_vars

\* C23: a run whose get_media returned no transcript URL (no transcript
\* object, or one without a URL) ends with its record, unless deleted, in
\* status ready with a single System segment: the summary if there is one,
\* else the title if there is one, else a placeholder that names the id.
C23_NoUrlEndsReady ==
    \A id \in SessionIds :
        (/\ task[id].pc = "done"
         /\ hist[id].media # None
         /\ hist[id].media[1].transcript # "url"
         /\ HasRecord(id)) =>
            LET media == hist[id].media[1]
            IN  /\ Record(id).status = "ready"
                /\ "transcript_text" \in DOMAIN Record(id)
                /\ Len(Record(id).transcript_text) = 1
                /\ Record(id).transcript_text[1].speaker = <<"System">>
                /\ IF media.summary # <<>>
                   THEN Record(id).transcript_text[1].text =
                            <<"Meeting Summary: ">> \o media.summary
                   ELSE IF media.title # <<>>
                   THEN Record(id).transcript_text[1].text =
                            <<"Meeting Title: ">> \o media.title
                   ELSE id \in Range(Record(id).transcript_text[1].text)

\* The statuses the scenario is to persist, poll by poll.
ScenarioStatuses == <<"joining", "recording", "recording", "processing", "ready">>

\* C24: a poll whose find returns CONNECTING, ATTENDING or MEDIA_PROCESSING
\* sets the status of the record to joining, recording or processing and
\* changes nothing else of it; and a run whose finds returned CONNECTING,
\* ATTENDING, ATTENDING, MEDIA_PROCESSING, MEDIA_AVAILABLE and whose fetch
\* got a valid transcript has persisted joining, recording, recording,
\* processing after the first four polls and ready with a non-empty
\* transcript after the fifth.
C24_StatusSequence ==
    /\ [][\A id \in SessionIds :
            \A state \in {"CONNECTING", "ATTENDING", "MEDIA_PROCESSING"} :
                (PollStatusAs(id, state) /\ HasRecord(id)) =>
                    /\ DOMAIN transcript_collection'[id] = DOMAIN Record(id)
                    /\ \A k \in DOMAIN Record(id) :
                          transcript_collection'[id][k] =
                              IF k # "status" THEN Record(id)[k]
                              ELSE CASE state = "CONNECTING" -> "joining"
                                     [] state = "ATTENDING" -> "recording"
                                     [] state = "MEDIA_PROCESSING" -> "processing"]_vars
    /\ [](\A id \in SessionIds :
            (hist[id].scenario # None /\ hist[id].scenario[1] >= 1 /\ HasRecord(id)) =>
                LET n == hist[id].scenario[1]
                IN  /\ (n < 5 /\ task[id].pc \in {"sleep", "poll"}) =>
                          Record(id).status = ScenarioStatuses[n]
                    /\ (/\ n = 5
                        /\ task[id].pc \in {"cache", "final", "done"}
                        /\ hist[id].payload =
                             Some("{\"transcript\":[{\"speaker\":\"A\",\"text\":\"Hi\"},{\"speaker\":\"B\",\"text\":\"\"}]}")) =>
                          /\ Record(id).status = ScenarioStatuses[n]
                          /\ "transcript_text" \in DOMAIN Record(id)
                          /\ Record(id).transcript_text # <<>>
                          /\ \A i \in DOMAIN Record(id).transcript_text :
                                Record(id).transcript_text[i].text # <<>>)

C24_Witness ==
    /\ hist["nt1"].scenario = Some(5)
    /\ task["nt1"].pc = "done"
    /\ hist["nt1"].payload =
         Some("{\"transcript\":[{\"speaker\":\"A\",\"text\":\"Hi\"},{\"speaker\":\"B\",\"text\":\"\"}]}")
    /\ HasRecord("nt1")
    /\ Record("nt1").status = "ready"
    /\ Len(Record("nt1").transcript_text) = 1

\* C25: a poll whose find returns a state other than the four known ones
\* changes neither the store nor the cache and uses up one iteration; the
\* run then sleeps and, while the budget is not used up, polls again.  A
\* run all of whose finds returned such states has written nothing.
C25_UnknownStateNoChange ==
    /\ [][\A id \in SessionIds :
            /\ PollOtherState(id) =>
                  /\ transcript_collection' = transcript_collection
                  /\ transcripts' = transcripts
                  /\ task'[id].retry_count = task[id].retry_count + 1
                  /\ task'[id].pc = "sleep"
            /\ (/\ task[id].pc = "sleep"
                /\ task[id].retry_count < max_retries
                /\ task'[id] # task[id]) =>
                  /\ task'[id].pc = "poll"
                  /\ task'[id].retry_count = task[id].retry_count]_vars
    /\ [](\A id \in SessionIds :
            (hist[id].allFinds = "other" /\ task[id].pc \in {"sleep", "poll"}) =>
                /\ task[id].retry_count = hist[id].finds
                /\ hist[id].termWrites = <<>>
                /\ id \notin DOMAIN transcripts
                /\ HasRecord(id) =>
                      Record(id) \in {[status |-> "scheduled"], [status |-> "processing"]})

C25_Witness ==
    /\ hist["nt1"].allFinds = "other"
    /\ hist["nt1"].finds = 2
    /\ task["nt1"].pc = "poll"
    /\ task["nt1"].retry_count = 2
    /\ HasRecord("nt1")
    /\ Record("nt1") = [status |-> "scheduled"]

\* C26: a find that raises in an iteration before the 120th changes
\* neither the store nor the cache and uses up the iteration; the run then
\* sleeps and polls again.  A run all of whose finds raised has written no
\* terminal status before its 120th iteration.
C26_FindErrorRetried ==
    /\ [][\A id \in SessionIds :
            (PollFindRaises(id) /\ task[id].retry_count + 1 < max_retries) =>
                /\ transcript_collection' = transcript_collection
                /\ transcripts' = transcripts
                /\ task'[id].retry_count = task[id].retry_count + 1
                /\ task'[id].pc = "sleep"]_vars
    /\ [](\A id \in SessionIds :
            (hist[id].allFinds = "raised" /\ hist[id].finds < max_retries) =>
                /\ task[id].pc \in {"sleep", "poll"}
                /\ task[id].retry_count = hist[id].finds
                /\ hist[id].termWrites = <<>>
                /\ HasRecord(id) =>
                      Record(id) \in {[status |-> "scheduled"], [status |-> "processing"]})

C26_Witness ==
    /\ hist["nt1"].allFinds = "raised"
    /\ hist["nt1"].finds = max_retries - 1
    /\ task["nt1"].pc = "poll"
    /\ HasRecord("nt1")
    /\ Record("nt1") = [status |-> "processing"]

\* C27: a run that fetched the transcript URL and received a body that is
\* not JSON (the empty body included) ends with its record, unless deleted,
\* in status ready and holding exactly one segment, whose speaker is
\* Transcript and whose text is the body.
C27_PlainTextEndsReady ==
    \A id \in SessionIds :
        (/\ task[id].pc = "done"
         /\ hist[id].payload # None
         /\ json_loads(hist[id].payload[1]) = None
         /\ HasRecord(id)) =>
            /\ Record(id).status = "ready"
            /\ "transcript_text" \in DOMAIN Record(id)
            /\ Record(id).transcript_text =
                   <<[speaker |-> <<"Transcript">>, text |-> TextOf(hist[id].payload[1])]>>

\* An element of a payload array that is a string, or an object whose text
\* and speaker, where present, are strings.
WellFormedEntry(entry) ==
    \/ entry.t = "str"
    \/ /\ entry.t = "obj"
       /\ \A k \in {"text", "speaker"} : k \in DOMAIN entry.f => entry.f[k].t = "str"

\* The trimmed text and the trimmed speaker an element stands for.
ExpectedText(entry) ==
    IF entry.t = "str" THEN Strip(entry.s)
    ELSE IF "text" \in DOMAIN entry.f THEN Strip(entry.f["text"].s) ELSE <<>>

ExpectedSpeaker(entry) ==
    IF entry.t = "obj" /\ "speaker" \in DOMAIN entry.f
    THEN Strip(entry.f["speaker"].s) ELSE <<"Speaker">>

\* The elements with a non-empty trimmed text, in order, as segments.
ExpectedSegments(entries) ==
    LET kept == SelectSeq(entries, LAMBDA entry : ExpectedText(entry) # <<>>)
    IN  [i \in 1..Len(kept) |->
            [speaker |-> ExpectedSpeaker(kept[i]), text |-> ExpectedText(kept[i])]]

\* C28: for a payload that is an array of strings and objects, the
\* normalization does not raise and the segments it builds are those of the
\* elements whose trimmed text is not empty, in the order of the array, each
\* with its text trimmed and its speaker trimmed, Speaker where there is none.
C28_ArrayNormalized ==
    (/\ norm.stage = "normalized"
     /\ norm.raw.t = "arr"
     /\ \A i \in DOMAIN norm.raw.a : WellFormedEntry(norm.raw.a[i])) =>
        /\ ~norm.raises
        /\ norm.clean = ExpectedSegments(norm.raw.a)

\* The fields of an object that hold an array.
ArrayFields(raw) == {k \in DOMAIN raw.f : raw.f[k].t = "arr"}

\* C29: the array the normalization iterates is, for an object with a field
\* that holds an array, the array of such a field, whatever its name; for
\* any other payload that is an array, the payload; and for every other
\* payload, the one-element array of the payload.
C29_ShapeResolution ==
    norm.stage = "normalized" =>
        IF norm.raw.t = "obj" /\ ArrayFields(norm.raw) # {}
        THEN \E k \in ArrayFields(norm.raw) : norm.array = Some(norm.raw.f[k].a)
        ELSE IF norm.raw.t = "arr" THEN norm.array = Some(norm.raw.a)
        ELSE norm.array = Some(<<norm.raw>>)

\* C30: a record in status ready holds a transcript that is a non-empty
\* sequence of segments, each of a speaker and a text; and the step that
\* sets the status to ready sets, in the same update, the transcript to the
\* task's transcript_data.
C30_ReadyHasTranscript ==
    /\ [](\A id \in SessionIds :
            (HasRecord(id) /\ Record(id).status = "ready") =>
                /\ "transcript_text" \in DOMAIN Record(id)
                /\ Record(id).transcript_text # <<>>
                /\ \A i \in DOMAIN Record(id).transcript_text :
                      DOMAIN Record(id).transcript_text[i] = {"speaker", "text"})
    /\ [][\A id \in SessionIds :
            (/\ HasRecord(id)
             /\ id \in DOMAIN transcript_collection'
             /\ Record(id).status # "ready"
             /\ transcript_collection'[id].status = "ready") =>
                /\ "transcript_text" \notin DOMAIN Record(id)
                /\ task[id].transcript_data # None
                /\ transcript_collection'[id].transcript_text = task[id].transcript_data[1]]_vars

C30_Witness ==
    /\ task["nt1"].pc = "cache"
    /\ HasRecord("nt1")
    /\ Record("nt1").status = "ready"
    /\ Record("nt1").transcript_text = <<[speaker |-> <<"A">>, text |-> <<"H", "i">>]>>

\* What a collection holds for an id (None when it holds nothing).
Entry(coll, id) == IF id \in DOMAIN coll THEN Some(coll[id]) ELSE None

\* C31: every step of the task of a session leaves the record, the cache
\* entry and the task of every other session unchanged, whatever the tasks
\* of the other sessions are doing; and the status a finished task leaves
\* in its record is the last terminal status that task itself wrote.
C31_TasksIndependent ==
    /\ [][\A id \in SessionIds :
            check_and_get_transcript(id) =>
                \A other \in SessionIds \ {id} :
                    /\ Entry(transcript_collection', other) = Entry(transcript_collection, other)
                    /\ Entry(transcripts', other) = Entry(transcripts, other)
                    /\ task'[other] = task[other]]_vars
    /\ [](\A id \in SessionIds :
            (task[id].pc = "done" /\ HasRecord(id)) =>
                /\ hist[id].termWrites # <<>>
                /\ Record(id).status = hist[id].termWrites[Len(hist[id].termWrites)])

\* One task has finished ready and cached, the other is still polling.
C31_Witness ==
    /\ task["nt1"].pc = "done"
    /\ Record("nt1").status = "ready"
    /\ "nt1" \in DOMAIN transcripts
    /\ task["nt2"].pc = "sleep"
    /\ Record("nt2").status = "recording"
    /\ "nt2" \notin DOMAIN transcripts

\* C32: the status of a record that exists before and after a step changes
\* only in a step of the polling task of that record; a step of a request
\* handler leaves every record it does not remove as it was, and a record
\* that appears is inserted by a request handler with status scheduled or
\* processing.
C32_StatusOnlyByTask ==
    [][\A id \in SessionIds :
          /\ (/\ HasRecord(id)
              /\ id \in DOMAIN transcript_collection'
              /\ transcript_collection'[id].status # Record(id).status) =>
                 check_and_get_transcript(id)
          /\ (/\ response' # NoResponse
              /\ HasRecord(id)
              /\ id \in DOMAIN transcript_collection') =>
                 transcript_collection'[id] = Record(id)
          /\ (~HasRecord(id) /\ id \in DOMAIN transcript_collection') =>
                 /\ response'.op \in {"schedule_meeting", "auto_deploy_bot_to_event"}
                 /\ transcript_collection'[id].status \in {"scheduled", "processing"}]_vars

\* The list of recordings was read while a record was in status recording.
C32_Witness ==
    /\ response.op = "get_all_recordings"
    /\ HasRecord("nt1")
    /\ Record("nt1").status = "recording"
    /\ response.recordings["nt1"].status = "recording"

\* C33: a task that has returned has issued a terminal status write; it
\* leaves the loop only after a find returned MEDIA_AVAILABLE or after its
\* 120th iteration; and nothing but its own steps moves a started task, so
\* the deletion of its record does not stop it.
C33_EndsOnlyAfterTerminalWrite ==
    /\ [](\A id \in SessionIds :
            /\ task[id].pc = "done" =>
                  /\ hist[id].termWrites # <<>>
                  /\ Range(hist[id].termWrites) \subseteq TerminalStatuses
            /\ task[id].pc \in {"final", "done"} =>
                  \/ hist[id].sawMedia
                  \/ task[id].retry_count = max_retries)
    /\ [][\A id \in SessionIds :
            (task[id].pc # "none" /\ task'[id] # task[id]) =>
                check_and_get_transcript(id)]_vars

\* The task wrote ready and the cache entry after its record was deleted.
C33_Witness ==
    /\ task["nt1"].pc = "done"
    /\ ~HasRecord("nt1")
    /\ "nt1" \in DOMAIN transcripts
    /\ hist["nt1"].termWrites = <<"ready">>

\* C34: a status read for an id whose record delete_recording has removed
\* answers 404, whatever the polling task of that id has done since.
C34_DeletedStaysNotFound ==
    (/\ response.op = "get_transcript_status"
     /\ hist[response.notetaker_id].deleted) =>
        response.status_code = 404

\* C35: auto-deploy on an event without a meeting link answers with status
\* 400 and has obtained no session id (so that no record was inserted and no
\* task started for one).
C35_NoLinkRejected400 ==
    (/\ response.op = "auto_deploy_bot_to_event"
     /\ response.detail = "Unexpected error: 400: No meeting link found in the calendar event.") =>
        /\ response.status_code = 400
        /\ response.notetaker_id = None

\* C36: a request to schedule a meeting whose start time has an invalid
\* format, or whose Zoom link is a web-client link or has no /j/, is
\* answered with status 400 in a step that makes no call to the remote
\* service (no event created, no bot invited), obtains no session id and
\* changes neither store, cache nor tasks.
C36_InvalidRequestRejected ==
    [][(/\ response' # response
        /\ response'.op = "schedule_meeting"
        /\ response'.request \in {"invalid start_time", "invalid Zoom link"}) =>
           /\ response'.status_code = 400
           /\ response'.calls = {}
           /\ response'.notetaker_id = None
           /\ UNCHANGED <<transcript_collection, transcripts, task, pool>>]_vars

\* A web-client Zoom link was rejected although an id could be issued.
C36_Witness ==
    /\ response.op = "schedule_meeting"
    /\ response.request = "invalid Zoom link"
    /\ response.status_code = 400
    /\ response.calls = {}
    /\ pool = {"nt1"}

\* C37: a step of schedule_meeting inserts a record with status scheduled
\* and starts the polling task, both for the session id it obtained, if and
\* only if it obtained one; a step that obtained none leaves store and
\* tasks unchanged, and is answered with status 200 when it is the invite
\* of the bot that failed.
C37_TrackedIffIdObtained ==
    [][(response' # response /\ response'.op = "schedule_meeting") =>
          IF response'.notetaker_id # None
          THEN LET id == response'.notetaker_id[1]
               IN  /\ ~HasRecord(id)
                   /\ id \in DOMAIN transcript_collection'
                   /\ transcript_collection'[id] = [status |-> "scheduled"]
                   /\ task[id].pc = "none"
                   /\ task'[id].pc = "poll"
          ELSE /\ UNCHANGED <<transcript_collection, transcripts, task>>
               /\ "notetakers.invite" \in response'.calls => response'.status_code = 200]_vars

\* The texts of the segments that have one, in order, a blank line between
\* each two.
RECURSIVE BlankLineJoined(_)
BlankLineJoined(segments) ==
    IF segments = <<>> THEN <<>>
    ELSE LET rest == BlankLineJoined(Tail(segments))
         IN  IF Head(segments).text = <<>> THEN rest
             ELSE IF rest = <<>> THEN Head(segments).text
             ELSE Head(segments).text \o <<"\n", "\n">> \o rest

\* C38: the step of a polling task that writes the cache entry of its id
\* writes the texts of the segments of the transcript its ready update has
\* just set (those the record holds, unless it was deleted), in order,
\* joined by a blank line, the empty texts left out.
C38_CacheIsJoinedTexts ==
    [][\A id \in SessionIds :
          CacheWrite(id) =>
              /\ id \in DOMAIN transcripts'
              /\ transcripts'[id] = BlankLineJoined(task[id].transcript_data[1])
              /\ HasRecord(id) =>
                    transcripts'[id] = BlankLineJoined(Record(id).transcript_text)]_vars

\* The record holds the segments a, (empty), b and the cache the two texts.
C38_Witness ==
    /\ task["nt1"].pc = "final"
    /\ HasRecord("nt1")
    /\ Record("nt1").status = "ready"
    /\ Len(Record("nt1").transcript_text) = 3
    /\ Record("nt1").transcript_text[2].text = <<>>
    /\ "nt1" \in DOMAIN transcripts
    /\ transcripts["nt1"] = <<"a", "\n", "\n", "b">>

====
